---------------------------- MODULE Spec2Model ----------------------------
(***************************************************************************)
(* FanPico: tachometer pulse counting / frequency sampling (network.c,     *)
(* lines 380-488), the filter registry and the Lossy-Peak filter           *)
(* (filters.c).                                                            *)
(*                                                                         *)
(* Specifications: Spec (tachometer inputs), LiveSpec (Spec with a fair    *)
(* clock and main loop), FilterSpec (one registry call per behaviour) and  *)
(* LossySpec (a Lossy-Peak context stepped by its owner).                  *)
(*                                                                         *)
(* Two execution contexts touch the tachometer state: the GPIO interrupt   *)
(* handler fan_tacho_read_callback (atomic with respect to the main loop)  *)
(* and the main-loop sampler update_tacho_input_freq, which the interrupt  *)
(* can preempt between any two of its reads.  The sampler is therefore     *)
(* modelled step by step (pc), the handler as one atomic action.           *)
(*                                                                         *)
(* Abstractions (each a named bound below):                                *)
(*   - the 32-bit `uint` counters are CounterBits wide, so that a wrap     *)
(*     is reachable from the zeroed state setup_tacho_inputs leaves;       *)
(*   - FAN_MAX_COUNT channels (8 in the source table) are scaled down;     *)
(*   - time is in microseconds, the clock advancing TickUs at a time;      *)
(*   - frequencies and filter values are exact rationals <<num, den>> in   *)
(*     lowest terms (the rounding of double/float arithmetic is not        *)
(*     modelled);                                                          *)
(*   - the Lossy-Peak filter is called on a clock grid of LpStepUs with    *)
(*     inputs 0, MaxPeak - 1 and MaxPeak.                                  *)
(***************************************************************************)
EXTENDS Integers, Sequences, FiniteSets, TLC

VARIABLES
    \* ---- program state, network.c ----
    fan_gpio_tacho_map,       \* channel -> pin (compile-time table)
    gpio_fan_tacho_map,       \* pin -> 0 (unmapped) or channel + 1
    fan_tacho_counters,       \* pulse counters, written by the interrupt
    fan_tacho_counters_last,  \* baseline of each counter
    fan_tacho_last_read,      \* time of the last accepted sample
    fan_tacho_freq,           \* last computed frequency (Hz, rational)
    irq_enabled,              \* edge interrupts armed by setup_tacho_inputs
    now,                      \* the hardware timer (microseconds)
    \* ---- update_tacho_input_freq: position and locals ----
    pc,                       \* "boot", "idle", "snap", "time", "calc"
    idx,                      \* loop index i of the snapshot loop
    counters,                 \* local snapshot counters[]
    read_time,                \* local read_time
    \* ---- history (not read by the program) ----
    edges,                    \* true number of counted interrupts per channel
    edges_snap,               \* edges[] at the sampler's snapshot read
    edges_last,               \* edges[] at the snapshot of the last accepted sample
    windows_sum,              \* sum of pulses-in-window over accepted samples
    last_op,                  \* the last tachometer operation that completed
    \* ---- filters.c ----
    f_in,                     \* the filter call: its arguments
    f_ctx,                    \* the filter context on the heap, or NULL
    f_op                      \* the filter call made: its result (and, for
                              \* the Lossy-Peak filter, the history of calls)

tachoNoClock == <<fan_gpio_tacho_map, gpio_fan_tacho_map, fan_tacho_counters,
                  fan_tacho_counters_last, fan_tacho_last_read, fan_tacho_freq,
                  irq_enabled, pc, idx, counters, read_time,
                  edges, edges_snap, edges_last, windows_sum, last_op>>

tachoVars == <<tachoNoClock, now>>

filterVars == <<f_in, f_ctx, f_op>>

vars == <<tachoVars, filterVars>>

-----------------------------------------------------------------------------
(* Bounds *)

FAN_MAX_COUNT == 2
CounterBits == 2
MaxEdges == 4
TickUs == 500000
MaxTicks == 4
FirstPin == 2

(* Program constants *)

GpioMapSize == 32
MinSampleUs == 1000000
UsPerSecond == 1000000

Channels == 0 .. (FAN_MAX_COUNT - 1)
CounterModulus == 2 ^ CounterBits
CounterValues == 0 .. (CounterModulus - 1)
MapPins == 0 .. (GpioMapSize - 1)

\* Pin tables the header may define: channel 0 on FirstPin, every other
\* channel either on a pin of its own or (misconfigured) on channel 0's pin.
PinTables ==
    { t \in [Channels -> FirstPin .. (FirstPin + FAN_MAX_COUNT - 1)] :
        \A c \in Channels : t[c] = FirstPin + c \/ t[c] = FirstPin }

\* gpio numbers the interrupt handler is called with: the configured pins,
\* one pin no channel uses, and one number beyond the 32-entry map.
GpioInputs ==
    (FirstPin .. (FirstPin + FAN_MAX_COUNT)) \cup {GpioMapSize + FirstPin}

-----------------------------------------------------------------------------
(* Arithmetic helpers *)

RECURSIVE GCD(_, _)
GCD(a, b) == IF b = 0 THEN a ELSE GCD(b, a % b)

\* the rational n/d (d > 0, n >= 0) in lowest terms
Rational(n, d) == LET g == GCD(n, d) IN <<n \div g, d \div g>>

ZeroFreq == <<0, 1>>

\* unsigned subtraction of two `uint` values
UnsignedSub(a, b) == (a - b + CounterModulus) % CounterModulus


-----------------------------------------------------------------------------
(* network.c: tachometer inputs *)

\* gpio_fan_tacho_map[(gpio & 0x1f)]
TachoMapLookup(gpio) == gpio_fan_tacho_map[gpio % GpioMapSize]

\* a throttle that never lets a call through
SampleThrottled_Always(delta) == TRUE

\* only a clock that did not advance is skipped
SampleThrottled_OnlyNonPositive(delta) == delta <= 0

\* if (delta < 1000000) return;
SampleThrottled(delta) == delta < MinSampleUs

\* a signed difference clamped at 0 instead of the unsigned one
PulsesInWindow_Clamped(i) ==
    IF counters[i] >= fan_tacho_counters_last[i]
    THEN counters[i] - fan_tacho_counters_last[i]
    ELSE 0

\* pulses = counters[i] - fan_tacho_counters_last[i];   (uint arithmetic)
PulsesInWindow(i) == UnsignedSub(counters[i], fan_tacho_counters_last[i])

\* s = delta / 1000000 in integer arithmetic: whole seconds only
Frequency_WholeSeconds(pulses, delta) ==
    Rational(pulses, delta \div UsPerSecond)

\* s = delta / 1000000.0;  f = pulses / s;
Frequency(pulses, delta) == Rational(pulses * UsPerSecond, delta)

\* the baseline taken from the live counter instead of the snapshot
NewBaseline_LiveCounter(i) == fan_tacho_counters[i]

\* fan_tacho_counters_last[i] = counters[i];
NewBaseline(i) == counters[i]

\* gpio_fan_tacho_map after the setup loop: the entries are written in
\* channel order, so a later channel overwrites an earlier one on its pin.
BuildGpioMap ==
    [p \in MapPins |->
        LET claimants == {c \in Channels : fan_gpio_tacho_map[c] = p}
        IN  IF claimants = {} THEN 0
            ELSE 1 + (CHOOSE c \in claimants : \A d \in claimants : d <= c)]

RECURSIVE SumUpTo(_, _)
SumUpTo(f, n) == IF n < 0 THEN 0 ELSE f[n] + SumUpTo(f, n - 1)

\* interrupts counted so far, over all channels (bounds the model)
TotalEdges == SumUpTo(edges, FAN_MAX_COUNT - 1)

NoLocals ==
    /\ idx' = 0
    /\ counters' = [c \in Channels |-> 0]
    /\ read_time' = 0

Init ==
    /\ fan_gpio_tacho_map \in PinTables
    /\ gpio_fan_tacho_map = [p \in MapPins |-> 0]
    /\ fan_tacho_counters = [c \in Channels |-> 0]
    /\ fan_tacho_counters_last = [c \in Channels |-> 0]
    /\ fan_tacho_last_read = 0
    /\ fan_tacho_freq = [c \in Channels |-> ZeroFreq]
    /\ irq_enabled = FALSE
    /\ now = 0
    /\ pc = "boot"
    /\ idx = 0
    /\ counters = [c \in Channels |-> 0]
    /\ read_time = 0
    /\ edges = [c \in Channels |-> 0]
    /\ edges_snap = [c \in Channels |-> 0]
    /\ edges_last = [c \in Channels |-> 0]
    /\ windows_sum = [c \in Channels |-> 0]
    /\ last_op = [op |-> "none"]
    /\ f_in = [op |-> "none"]
    /\ f_ctx = [null |-> TRUE]
    /\ f_op = [op |-> "none"]

\* the hardware timer advances
Tick ==
    /\ now + TickUs <= MaxTicks * TickUs
    /\ now' = now + TickUs
    /\ UNCHANGED <<fan_gpio_tacho_map, gpio_fan_tacho_map, fan_tacho_counters,
                   fan_tacho_counters_last, fan_tacho_last_read, fan_tacho_freq,
                   irq_enabled, pc, idx, counters, read_time,
                   edges, edges_snap, edges_last, windows_sum, last_op>>
    /\ UNCHANGED filterVars

\* setup_tacho_inputs(): runs once at startup, before the interrupts are armed
setup_tacho_inputs ==
    /\ pc = "boot"
    /\ gpio_fan_tacho_map' = BuildGpioMap
    /\ fan_tacho_counters' = [c \in Channels |-> 0]
    /\ fan_tacho_counters_last' = [c \in Channels |-> 0]
    /\ fan_tacho_freq' = [c \in Channels |-> ZeroFreq]
    /\ irq_enabled' = TRUE
    /\ fan_tacho_last_read' = now
    /\ pc' = "idle"
    /\ last_op' = [op |-> "setup"]
    /\ UNCHANGED <<fan_gpio_tacho_map, now, idx, counters, read_time,
                   edges, edges_snap, edges_last, windows_sum>>
    /\ UNCHANGED filterVars

\* fan_tacho_read_callback(gpio, events): the GPIO interrupt handler
fan_tacho_read_callback(gpio) ==
    /\ irq_enabled
    /\ LET fan == TachoMapLookup(gpio) IN
         IF fan > 0
         THEN /\ TotalEdges < MaxEdges
              /\ fan_tacho_counters' =
                   [fan_tacho_counters EXCEPT
                      ![fan - 1] = (@ + 1) % CounterModulus]
              /\ edges' = [edges EXCEPT ![fan - 1] = @ + 1]
         ELSE UNCHANGED <<fan_tacho_counters, edges>>
    /\ last_op' = [op |-> "edge", gpio |-> gpio]
    /\ UNCHANGED <<fan_gpio_tacho_map, gpio_fan_tacho_map,
                   fan_tacho_counters_last, fan_tacho_last_read, fan_tacho_freq,
                   irq_enabled, now, pc, idx, counters, read_time,
                   edges_snap, edges_last, windows_sum>>
    /\ UNCHANGED filterVars

\* update_tacho_input_freq() is called from the main loop
SamplerCall ==
    /\ pc = "idle"
    /\ pc' = "snap"
    /\ NoLocals
    /\ UNCHANGED <<fan_gpio_tacho_map, gpio_fan_tacho_map, fan_tacho_counters,
                   fan_tacho_counters_last, fan_tacho_last_read, fan_tacho_freq,
                   irq_enabled, now, edges, edges_snap, edges_last, windows_sum,
                   last_op>>
    /\ UNCHANGED filterVars

\* counters[i] = fan_tacho_counters[i];   one iteration of the first loop
SamplerSnapshot ==
    /\ pc = "snap"
    /\ counters' = [counters EXCEPT ![idx] = fan_tacho_counters[idx]]
    /\ edges_snap' = [edges_snap EXCEPT ![idx] = edges[idx]]
    /\ idx' = idx + 1
    /\ pc' = IF idx + 1 < FAN_MAX_COUNT THEN "snap" ELSE "time"
    /\ UNCHANGED <<fan_gpio_tacho_map, gpio_fan_tacho_map, fan_tacho_counters,
                   fan_tacho_counters_last, fan_tacho_last_read, fan_tacho_freq,
                   irq_enabled, now, read_time, edges, edges_last, windows_sum,
                   last_op>>
    /\ UNCHANGED filterVars

\* absolute_time_t read_time = get_absolute_time();
SamplerReadTime ==
    /\ pc = "time"
    /\ read_time' = now
    /\ pc' = "calc"
    /\ UNCHANGED <<fan_gpio_tacho_map, gpio_fan_tacho_map, fan_tacho_counters,
                   fan_tacho_counters_last, fan_tacho_last_read, fan_tacho_freq,
                   irq_enabled, now, idx, counters, edges, edges_snap,
                   edges_last, windows_sum, last_op>>
    /\ UNCHANGED filterVars

\* the throttle check, the frequency loop and the baseline loop: they read
\* and write only main-loop data, which no interrupt touches
SamplerFinish ==
    /\ pc = "calc"
    /\ LET delta == read_time - fan_tacho_last_read IN
         IF SampleThrottled(delta)
         THEN /\ last_op' = [op |-> "sample", accepted |-> FALSE, delta |-> delta]
              /\ UNCHANGED <<fan_tacho_counters_last, fan_tacho_last_read,
                             fan_tacho_freq, edges_last, windows_sum>>
         ELSE /\ fan_tacho_freq' =
                   [c \in Channels |-> Frequency(PulsesInWindow(c), delta)]
              /\ fan_tacho_counters_last' = [c \in Channels |-> NewBaseline(c)]
              /\ fan_tacho_last_read' = read_time
              /\ edges_last' = edges_snap
              /\ windows_sum' =
                   [c \in Channels |-> windows_sum[c] + PulsesInWindow(c)]
              /\ last_op' = [op |-> "sample", accepted |-> TRUE, delta |-> delta,
                              wrapped |-> {c \in Channels :
                                             counters[c] < fan_tacho_counters_last[c]},
                              after_throttled |->
                                  (last_op.op = "sample" /\ ~last_op.accepted)]
    /\ pc' = "idle"
    /\ NoLocals
    /\ edges_snap' = [c \in Channels |-> 0]
    /\ UNCHANGED <<fan_gpio_tacho_map, gpio_fan_tacho_map, fan_tacho_counters,
                   irq_enabled, now, edges>>
    /\ UNCHANGED filterVars

Next ==
    \/ Tick
    \/ setup_tacho_inputs
    \/ \E gpio \in GpioInputs : fan_tacho_read_callback(gpio)
    \/ SamplerCall
    \/ SamplerSnapshot
    \/ SamplerReadTime
    \/ SamplerFinish

Spec == Init /\ [][Next]_vars

\* the clock keeps advancing (as far as the model lets it) and the main loop
\* keeps calling the sampler and lets every call run to its end
LiveSpec ==
    /\ Spec
    /\ WF_vars(Tick)
    /\ WF_vars(SamplerCall)
    /\ WF_vars(SamplerSnapshot)
    /\ WF_vars(SamplerReadTime)
    /\ WF_vars(SamplerFinish)

-----------------------------------------------------------------------------
(* filters.c: the filter registry *)

(* Pointers are records: NULL, a string [str |-> sequence of one-character  *)
(* strings], a function [fn |-> name], a context (its fields), or WILD, a   *)
(* value read from outside an object.  Floating-point values are exact      *)
(* rationals <<num, den>> in lowest terms (rounding is not modelled).       *)

NULL == [null |-> TRUE]
WILD == [wild |-> TRUE]
Str(s) == [str |-> s]
Fn(name) == [fn |-> name]

FILTER_NONE == 0
FILTER_LOSSYPEAK == 1

Digits == {"0", "1", "2", "3", "4", "5", "6", "7", "8", "9"}

DigitVal(c) ==
    CASE c = "0" -> 0 [] c = "1" -> 1 [] c = "2" -> 2 [] c = "3" -> 3
      [] c = "4" -> 4 [] c = "5" -> 5 [] c = "6" -> 6 [] c = "7" -> 7
      [] c = "8" -> 8 [] c = "9" -> 9

DigitChar(n) ==
    CASE n = 0 -> "0" [] n = 1 -> "1" [] n = 2 -> "2" [] n = 3 -> "3"
      [] n = 4 -> "4" [] n = 5 -> "5" [] n = 6 -> "6" [] n = 7 -> "7"
      [] n = 8 -> "8" [] n = 9 -> "9"

\* tolower() on the letters the registry names use
ToLower(c) ==
    CASE c = "N" -> "n" [] c = "O" -> "o" [] c = "E" -> "e" [] c = "L" -> "l"
      [] c = "S" -> "s" [] c = "Y" -> "y" [] c = "P" -> "p" [] c = "A" -> "a"
      [] c = "K" -> "k" [] OTHER -> c

\* a case-sensitive comparison
strcasecmp_equal_CaseSensitive(a, b) == a = b

\* strcasecmp(a, b) == 0
strcasecmp_equal(a, b) ==
    /\ Len(a) = Len(b)
    /\ \A i \in 1 .. Len(a) : ToLower(a[i]) = ToLower(b[i])

\* strtok_r(str, ",", &saveptr) on the text s read from position pos: skips
\* leading delimiters; the token runs to the next delimiter or the end.
\* Returns the token (NULL if none is left) and the position to go on from.
strtok_r(s, pos) ==
    LET rest == {i \in pos .. Len(s) : s[i] # ","}
    IN  IF rest = {} THEN [tok |-> NULL, next |-> Len(s) + 1]
        ELSE LET b == CHOOSE i \in rest : \A j \in rest : i <= j
                 delims == {i \in b .. Len(s) : s[i] = ","}
                 e == IF delims = {} THEN Len(s) + 1
                      ELSE CHOOSE i \in delims : \A j \in delims : i <= j
             IN  [tok |-> Str(SubSeq(s, b, e - 1)), next |-> e + 1]

RECURSIVE DigitsValue(_)
DigitsValue(ds) ==
    IF ds = <<>> THEN 0
    ELSE 10 * DigitsValue(SubSeq(ds, 1, Len(ds) - 1)) + DigitVal(ds[Len(ds)])

RECURSIVE Pow10(_)
Pow10(n) == IF n = 0 THEN 1 ELSE 10 * Pow10(n - 1)

\* str_to_float(tok, &val): the text is a decimal number (digits with at
\* most one decimal point and at least one digit); val is its value.
str_to_float(str) ==
    LET tok == str.str
        points == {i \in 1 .. Len(tok) : tok[i] = "."}
        digits == SelectSeq(tok, LAMBDA c : c \in Digits)
    IN  IF /\ \A i \in 1 .. Len(tok) : tok[i] \in Digits \cup {"."}
           /\ Cardinality(points) <= 1
           /\ Len(digits) >= 1
        THEN LET frac == IF points = {} THEN 0
                         ELSE Len(tok) - (CHOOSE i \in points : TRUE)
             IN  [ok |-> TRUE,
                  val |-> Rational(DigitsValue(digits), Pow10(frac))]
        ELSE [ok |-> FALSE, val |-> <<0, 1>>]

\* c->delay_us = delay * 1000000;   (truncated to an integer)
DelayUs(delay) ==
    IF UsPerSecond % delay[2] = 0
    THEN delay[1] * (UsPerSecond \div delay[2])
    ELSE (delay[1] * UsPerSecond) \div delay[2]

\* lossy_peak_parse_args(args) up to the allocation: the context it would
\* initialise at time t, or NULL
lossy_peak_parse_args(args, t) ==
    IF args = NULL THEN NULL
    ELSE LET t1 == strtok_r(args.str, 1) IN
         IF t1.tok = NULL THEN NULL
         ELSE LET decay == str_to_float(t1.tok) IN
              IF ~decay.ok THEN NULL
              ELSE LET t2 == strtok_r(args.str, t1.next) IN
                   IF t2.tok = NULL THEN NULL
                   ELSE LET delay == str_to_float(t2.tok) IN
                        IF ~delay.ok THEN NULL
                        ELSE [peak |-> <<0, 1>>,
                              delay_us |-> DelayUs(delay.val),
                              decay |-> decay.val,
                              last_t |-> t,
                              peak_t |-> 0,
                              state |-> 0]

RECURSIVE DecimalDigits(_)
DecimalDigits(n) ==
    IF n < 10 THEN <<DigitChar(n)>>
    ELSE Append(DecimalDigits(n \div 10), DigitChar(n % 10))

\* printf("%f", x) for x >= 0: six decimals, rounded
FormatF(x) ==
    LET scaled == (x[1] * UsPerSecond + x[2] \div 2) \div x[2]
        frac   == scaled % UsPerSecond
    IN  DecimalDigits(scaled \div UsPerSecond) \o <<".">> \o
        [i \in 1 .. 6 |-> DigitChar((frac \div Pow10(6 - i)) % 10)]

\* lossy_peak_print_args(ctx)
lossy_peak_print_args(c) ==
    Str(FormatF(c.decay) \o <<",">> \o
        FormatF(Rational(c.delay_us, UsPerSecond)))

(* rational arithmetic on float values *)
Abs(n) == IF n < 0 THEN -n ELSE n
RatNorm(n, d) == LET g == GCD(Abs(n), d) IN IF n = 0 THEN <<0, 1>> ELSE <<n \div g, d \div g>>
\* the difference over the least common denominator
RatSub(a, b) ==
    LET g == GCD(a[2], b[2])
    IN  RatNorm(a[1] * (b[2] \div g) - b[1] * (a[2] \div g),
                (a[2] \div g) * b[2])
RatMul(a, b) == RatNorm(a[1] * b[1], a[2] * b[2])
RatLess(a, b) ==
    LET g == GCD(a[2], b[2])
    IN  a[1] * (b[2] \div g) < b[1] * (a[2] \div g)

\* the elapsed time taken from the time of the last new peak
ElapsedSinceLast_SincePeak(c, t_now) == t_now - c.peak_t

\* no elapsed time at all
ElapsedSinceLast_Zero(c, t_now) == 0

\* int64_t t_d = absolute_time_diff_us(c->last_t, t_now);
ElapsedSinceLast(c, t_now) == t_now - c.last_t

\* the hold branch taken for every delay, zero included
HoldConfigured_Always(c) == TRUE

\* if (c->delay_us > 0)
HoldConfigured(c) == c.delay_us > 0

\* a hold that already ends when exactly the delay has passed
HoldElapsed_AtBoundary(t_d, delay_us) == t_d >= delay_us

\* if (t_d > c->delay_us)
HoldElapsed(t_d, delay_us) == t_d > delay_us

\* the whole time since the peak carried into the decay
ExcessTime_Full(t_d, delay_us) == t_d

\* t_d -= c->delay_us;
ExcessTime(t_d, delay_us) == t_d - delay_us

\* a decay of one unit per second whatever the configured rate
DecayAmount_UnitRate(t_d, decay) == RatNorm(t_d, UsPerSecond)

\* float decay = (t_d / 1000000.0) * c->decay;
DecayAmount(t_d, decay) == RatMul(RatNorm(t_d, UsPerSecond), decay)

\* the decay applied without the comparison with the input
DecayedPeak_NoFloor(peak, decay, input) == RatSub(peak, decay)

\* if (input > c->peak - decay) c->peak = input; else c->peak -= decay;
DecayedPeak(peak, decay, input) ==
    IF RatLess(RatSub(peak, decay), input) THEN input ELSE RatSub(peak, decay)

\* the time of the last call left as it was
LastUpdate_Stale(c, t_now) == c.last_t

\* c->last_t = t_now;
LastUpdate(c, t_now) == t_now

\* lossy_peak_filter(ctx, input) called at time t_now: the context after
\* the call; the value returned is its peak
lossy_peak_filter(c, input, t_now) ==
    IF ~RatLess(input, c.peak)
    THEN [c EXCEPT !.peak = input, !.state = 0, !.peak_t = t_now,
                   !.last_t = LastUpdate(c, t_now)]
    ELSE LET hold == c.state = 0 /\ HoldConfigured(c)
             t_peak == t_now - c.peak_t
             state == IF c.state = 0
                      THEN IF HoldConfigured(c)
                           THEN IF HoldElapsed(t_peak, c.delay_us) THEN 1 ELSE 0
                           ELSE 1
                      ELSE c.state
             t_d == IF hold
                    THEN IF HoldElapsed(t_peak, c.delay_us)
                         THEN ExcessTime(t_peak, c.delay_us) ELSE t_peak
                    ELSE ElapsedSinceLast(c, t_now)
             peak == IF state = 1
                     THEN DecayedPeak(c.peak, DecayAmount(t_d, c.decay), input)
                     ELSE c.peak
         IN  [c EXCEPT !.peak = peak, !.state = state,
                       !.last_t = LastUpdate(c, t_now)]

\* struct filter_entry filters[]
filters ==
    (0 :> [name |-> Str(<<"n", "o", "n", "e">>),
           parse_args_func |-> NULL, print_args_func |-> NULL,
           filter_func |-> NULL]) @@
    (1 :> [name |-> Str(<<"l", "o", "s", "s", "y", "p", "e", "a", "k">>),
           parse_args_func |-> Fn("lossy_peak_parse_args"),
           print_args_func |-> Fn("lossy_peak_print_args"),
           filter_func |-> Fn("lossy_peak_filter")]) @@
    (2 :> [name |-> NULL, parse_args_func |-> NULL,
           print_args_func |-> NULL, filter_func |-> NULL])

\* float ret = 0.0;
PassThrough_Zero(input) == <<0, 1>>

\* float ret = input;   the result of filter() when no transform is called
PassThrough(input) == input

\* the values a read of filters[filter].field can produce: the entry's
\* field, or, outside the array, whatever the memory there holds
ReadEntry(filter, field) ==
    IF filter \in DOMAIN filters THEN {filters[filter][field]}
    ELSE {NULL, WILD}

RECURSIVE str2pwm_scan(_, _)
str2pwm_scan(s, i) ==
    IF filters[i].name = NULL THEN FILTER_NONE
    ELSE IF strcasecmp_equal(s, filters[i].name.str) THEN i
    ELSE str2pwm_scan(s, i + 1)

\* int str2pwm_filter(const char *s)
str2pwm_filter(s) == str2pwm_scan(s, 0)


(* Inputs of the registry calls *)

MaxArgLen == 5
MaxInput == 2

ArgChars == {"0", "1", ".", ",", "x"}

\* configuration texts: absent, or any text of up to MaxArgLen characters
ArgTexts ==
    {NULL} \cup
    {Str(t) : t \in UNION {[1 .. n -> ArgChars] : n \in 0 .. MaxArgLen}}

\* selectors: the table's indexes and one value on each side of them
Selectors == -1 .. 3

InputValues == {<<n, 1>> : n \in 0 .. MaxInput}

Upper(c) ==
    CASE c = "n" -> "N" [] c = "o" -> "O" [] c = "e" -> "E" [] c = "l" -> "L"
      [] c = "s" -> "S" [] c = "y" -> "Y" [] c = "p" -> "P" [] c = "a" -> "A"
      [] c = "k" -> "K" [] OTHER -> c

\* a name in every mix of upper and lower case
CaseMixes(name) ==
    {[i \in 1 .. Len(name) |-> IF up[i] THEN Upper(name[i]) ELSE name[i]] :
        up \in [1 .. Len(name) -> BOOLEAN]}

KnownNames == {filters[i].name.str : i \in {FILTER_NONE, FILTER_LOSSYPEAK}}

\* texts given to str2pwm_filter: the known names in every mix of case,
\* their proper prefixes, their one-character extensions, and texts with
\* one character replaced
NameTexts ==
    LET shouted == {[i \in 1 .. Len(n) |-> Upper(n[i])] : n \in KnownNames}
    IN  UNION {CaseMixes(n) : n \in KnownNames}
        \cup UNION {{SubSeq(m, 1, k) : k \in 0 .. (Len(m) - 1)} :
                      m \in KnownNames \cup shouted}
        \cup {Append(n, c) : n \in KnownNames, c \in {"e", "k", "s", "x", " "}}
        \cup UNION {{[n EXCEPT ![k] = "x"] : k \in 1 .. Len(n)} :
                      n \in KnownNames}

\* configurations of the Lossy-Peak filter: decay 2.0 with a hold of 0.5 s,
\* no decay with a hold of 1 s, decay 1.5 without hold
LpConfigTexts ==
    {Str(<<"2", ".", "0", ",", "0", ".", "5">>),
     Str(<<"0", ",", "1">>),
     Str(<<"1", ".", "5", ",", "0">>)}

\* contexts a caller may hold: created at time 0 from these texts, one of
\* them with a decay rate below a millionth
ContextTexts ==
    LpConfigTexts \cup
    {Str(<<"0", ".", "0", "0", "0", "0", "0", "0", "1", ",", "0">>)}

Contexts == {lossy_peak_parse_args(t, 0) : t \in ContextTexts}

\* the registry call a behaviour makes, with the heap it is made on (heap:
\* the caller's context, or NULL) and, for a call that takes a context,
\* the pointer passed (ctx: NULL or the heap's context)
Calls ==
    {[op |-> "str2pwm_filter", s |-> s, heap |-> NULL] : s \in NameTexts}
    \cup {[op |-> "filter_parse_args", filter |-> f, args |-> a, heap |-> NULL] :
            f \in Selectors, a \in ArgTexts}
    \cup {c \in [op : {"filter_print_args"}, filter : Selectors,
                 heap : Contexts \cup {NULL}, ctx : Contexts \cup {NULL}] :
            c.ctx \in {NULL, c.heap}}
    \cup {c \in [op : {"filter"}, filter : Selectors, input : InputValues,
                 heap : Contexts \cup {NULL}, ctx : Contexts \cup {NULL}] :
            c.ctx \in {NULL, c.heap}}

(* The registry calls *)

\* str2pwm_filter(s)
ResolveName ==
    /\ f_in.op = "str2pwm_filter" /\ f_op.op = "none"
    /\ f_op' = [op |-> "returned", ret |-> str2pwm_filter(f_in.s)]
    /\ UNCHANGED <<f_in, f_ctx, now, tachoNoClock>>

\* filter_parse_args(filter, args)
filter_parse_args ==
    /\ f_in.op = "filter_parse_args" /\ f_op.op = "none"
    /\ \E func \in ReadEntry(f_in.filter, "parse_args_func"),
          malloc_ok \in BOOLEAN :
         LET parsed == IF func = Fn("lossy_peak_parse_args")
                       THEN lossy_peak_parse_args(f_in.args, now)
                       ELSE NULL
             ret == IF func = NULL THEN NULL
                    ELSE IF func = WILD THEN WILD
                    ELSE IF parsed = NULL \/ ~malloc_ok THEN NULL
                    ELSE parsed
         IN  /\ f_ctx' = IF ret = WILD THEN f_ctx ELSE ret
             /\ f_op' = [op |-> "returned", ret |-> ret,
                         fault |-> (func = WILD)]
    /\ UNCHANGED <<f_in, now, tachoNoClock>>

\* filter_print_args(filter, ctx); a serializer is given a context
filter_print_args ==
    /\ f_in.op = "filter_print_args" /\ f_op.op = "none"
    /\ \E func \in ReadEntry(f_in.filter, "print_args_func") :
         /\ func = Fn("lossy_peak_print_args") => f_in.ctx # NULL
         /\ f_op' = [op |-> "returned",
                     ret |-> IF func = NULL THEN NULL
                             ELSE IF func = WILD THEN WILD
                             ELSE lossy_peak_print_args(f_in.ctx),
                     fault |-> (func = WILD)]
    /\ UNCHANGED <<f_in, f_ctx, now, tachoNoClock>>

\* filter(filter, ctx, input); a transform is given a context
filter ==
    /\ f_in.op = "filter" /\ f_op.op = "none"
    /\ \E func \in ReadEntry(f_in.filter, "filter_func") :
         /\ func = Fn("lossy_peak_filter") => f_in.ctx # NULL
         /\ LET after == IF func = Fn("lossy_peak_filter")
                         THEN lossy_peak_filter(f_in.ctx, f_in.input, now)
                         ELSE f_ctx
            IN  /\ f_ctx' = after
                /\ f_op' = [op |-> "returned",
                            ret |-> IF func = NULL THEN PassThrough(f_in.input)
                                    ELSE IF func = WILD THEN WILD
                                    ELSE after.peak,
                            fault |-> (func = WILD)]
    /\ UNCHANGED <<f_in, now, tachoNoClock>>

\* one registry call per behaviour, its arguments drawn from Calls
FilterInit ==
    /\ fan_gpio_tacho_map = [c \in Channels |-> FirstPin + c]
    /\ gpio_fan_tacho_map = [p \in MapPins |-> 0]
    /\ fan_tacho_counters = [c \in Channels |-> 0]
    /\ fan_tacho_counters_last = [c \in Channels |-> 0]
    /\ fan_tacho_last_read = 0
    /\ fan_tacho_freq = [c \in Channels |-> ZeroFreq]
    /\ irq_enabled = FALSE
    /\ now \in {0, TickUs}
    /\ pc = "boot"
    /\ idx = 0
    /\ counters = [c \in Channels |-> 0]
    /\ read_time = 0
    /\ edges = [c \in Channels |-> 0]
    /\ edges_snap = [c \in Channels |-> 0]
    /\ edges_last = [c \in Channels |-> 0]
    /\ windows_sum = [c \in Channels |-> 0]
    /\ last_op = [op |-> "none"]
    /\ f_in \in Calls
    /\ f_ctx = f_in.heap
    /\ f_op = [op |-> "none"]

FilterNext ==
    \/ ResolveName
    \/ filter_parse_args
    \/ filter_print_args
    \/ filter

FilterSpec == FilterInit /\ [][FilterNext]_vars

-----------------------------------------------------------------------------
(* The Lossy-Peak filter stepped by its owner: calls of lossy_peak_filter on
   one context at the times of a monotonic clock that advances in steps of
   LpStepUs.  f_in holds the last call (its input, its time and the context
   before it), f_op what it returned and the history of the calls. *)

LpStepUs == 100000
MaxLpSteps == 14
MaxPeak == 10

LpInputs == {<<0, 1>>, <<MaxPeak - 1, 1>>, <<MaxPeak, 1>>}

RatMax(a, b) == IF RatLess(a, b) THEN b ELSE a

\* the run of calls since a call that accepted a new peak p at time t0:
\* x is the input every later call has supplied (x = p while there was no
\* later call); live is FALSE once two later calls differed
RunAfter(run, c, input, t_now) ==
    IF run.live /\ run.x # run.p /\ input = run.x THEN run
    ELSE IF ~RatLess(input, c.peak)
    THEN [live |-> TRUE, t0 |-> t_now, p |-> input, x |-> input]
    ELSE IF run.live /\ run.x = run.p THEN [run EXCEPT !.x = input]
    ELSE [run EXCEPT !.live = FALSE]

\* get_absolute_time() moves on
LpTick ==
    /\ now + LpStepUs <= MaxLpSteps * LpStepUs
    /\ now' = now + LpStepUs
    /\ UNCHANGED <<tachoNoClock, filterVars>>

\* lossy_peak_filter(ctx, input) on the owner's context
LossyPeakCall ==
    \E input \in LpInputs :
        LET after == lossy_peak_filter(f_ctx, input, now)
        IN  /\ f_ctx' = after
            /\ f_in' = [op |-> "lossy_peak_filter", input |-> input,
                        t_now |-> now, before |-> f_ctx]
            /\ f_op' = [op |-> "returned", ret |-> after.peak,
                        max_seen |-> RatMax(f_op.max_seen, input),
                        run |-> RunAfter(f_op.run, f_ctx, input, now)]
            /\ UNCHANGED <<now, tachoNoClock>>

\* a context created at time 0 from one of the configurations
LossyInit ==
    /\ fan_gpio_tacho_map = [c \in Channels |-> FirstPin + c]
    /\ gpio_fan_tacho_map = [p \in MapPins |-> 0]
    /\ fan_tacho_counters = [c \in Channels |-> 0]
    /\ fan_tacho_counters_last = [c \in Channels |-> 0]
    /\ fan_tacho_last_read = 0
    /\ fan_tacho_freq = [c \in Channels |-> ZeroFreq]
    /\ irq_enabled = FALSE
    /\ now = 0
    /\ pc = "boot"
    /\ idx = 0
    /\ counters = [c \in Channels |-> 0]
    /\ read_time = 0
    /\ edges = [c \in Channels |-> 0]
    /\ edges_snap = [c \in Channels |-> 0]
    /\ edges_last = [c \in Channels |-> 0]
    /\ windows_sum = [c \in Channels |-> 0]
    /\ last_op = [op |-> "none"]
    /\ f_in = [op |-> "none"]
    /\ f_ctx \in {lossy_peak_parse_args(t, 0) : t \in LpConfigTexts}
    /\ f_op = [op |-> "none", ret |-> <<0, 1>>, max_seen |-> <<0, 1>>,
               run |-> [live |-> FALSE, t0 |-> 0, p |-> <<0, 1>>,
                        x |-> <<0, 1>>]]

LossyNext ==
    \/ LpTick
    \/ LossyPeakCall

LossySpec == LossyInit /\ [][LossyNext]_vars

-----------------------------------------------------------------------------
(* Claims about the tachometer inputs *)

SampleDelta == read_time - fan_tacho_last_read
\* the step that ends a sampler call whose elapsed time is at least 1 second
AcceptingStep == pc = "calc" /\ pc' = "idle" /\ SampleDelta >= MinSampleUs

\* C1: a sampler call whose elapsed time is below 1 second (zero included)
\* changes no baseline_count, no frequency_hz and not the accepted-sample
\* timestamp; after setup these change only in the final step of a call
\* whose elapsed time is at least 1 second, so two accepted samples are at
\* least 1 second apart.
C1_ThrottledCallChangesNothing ==
    [][ /\ (pc # "boot" /\ ~AcceptingStep)
              => UNCHANGED <<fan_tacho_counters_last, fan_tacho_freq,
                             fan_tacho_last_read>>
        /\ AcceptingStep
              => fan_tacho_last_read' - fan_tacho_last_read >= 1000000 ]_vars

\* a call throttled with zero elapsed time while a pulse was waiting to be
\* counted
C1_Witness ==
    /\ last_op.op = "sample"
    /\ ~last_op.accepted
    /\ last_op.delta = 0
    /\ pc = "idle"
    /\ \E c \in Channels : fan_tacho_counters[c] # fan_tacho_counters_last[c]

\* C2: a sampler call with elapsed time t >= 1 second sets, for every
\* channel i, frequency_hz[i] = p / t with p the snapshot minus the old
\* baseline (unsigned), baseline_count[i] to the snapshot and the
\* accepted-sample timestamp to the time read in the call.
C2_AcceptedSample ==
    [][ AcceptingStep =>
          /\ \A i \in Channels :
               LET p == (counters[i] - fan_tacho_counters_last[i]
                           + CounterModulus) % CounterModulus
                   f == fan_tacho_freq'[i]
               IN  \* f = p / (delta / 10^6), as a fraction in lowest terms
                   /\ f = Rational(p * 1000000, SampleDelta)
                   /\ fan_tacho_counters_last'[i] = counters[i]
          /\ fan_tacho_last_read' = read_time ]_vars

\* an accepted sample more than 1 second after the previous one that produced
\* a frequency which is not a whole number of Hz
C2_Witness ==
    /\ last_op.op = "sample"
    /\ last_op.accepted
    /\ last_op.delta > MinSampleUs
    /\ pc = "idle"
    /\ \E c \in Channels : fan_tacho_freq[c][1] > 0 /\ fan_tacho_freq[c][2] > 1

\* C3: if fewer than 2^w interrupts were counted on a channel between the
\* snapshot reads of two consecutive accepted samples, the pulses-in-window
\* the sampler computes (and the frequency it stores) is that true number,
\* also when the counter wrapped inside the window.
C3_WrapSafeDelta ==
    [][ AcceptingStep =>
          \A i \in Channels :
            LET true_pulses == edges_snap[i] - edges_last[i] IN
              true_pulses < CounterModulus =>
                /\ PulsesInWindow(i) = true_pulses
                /\ windows_sum'[i] = windows_sum[i] + true_pulses
                /\ fan_tacho_freq'[i] =
                     Rational(true_pulses * 1000000, SampleDelta) ]_vars

\* an accepted sample in whose window a counter wrapped from its maximum to 0
\* and which still measured a non-zero number of pulses below the range
C3_Witness ==
    /\ last_op.op = "sample"
    /\ last_op.accepted
    /\ pc = "idle"
    /\ \E c \in last_op.wrapped :
         /\ edges_last[c] >= CounterModulus
         /\ fan_tacho_freq[c][1] > 0
         /\ windows_sum[c] = edges_last[c]

\* C4: under every interleaving of interrupts with the sampler's steps, no
\* pulse is lost or counted twice: the counter holds every interrupt, a
\* snapshot holds the interrupts completed before its read, the baseline is
\* the counter at the last accepted snapshot, the windows of the accepted
\* samples add up to it, and the interrupts after that snapshot are exactly
\* what the next window will count (all modulo the counter width).
C4_EachPulseInOneWindow ==
    \A i \in Channels :
      /\ fan_tacho_counters[i] = edges[i] % CounterModulus
      /\ fan_tacho_counters_last[i] = edges_last[i] % CounterModulus
      /\ windows_sum[i] % CounterModulus = fan_tacho_counters_last[i]
      /\ edges_last[i] <= edges[i]
      /\ (fan_tacho_counters[i] - fan_tacho_counters_last[i] + CounterModulus)
            % CounterModulus
           = (edges[i] - edges_last[i]) % CounterModulus
      /\ (pc \in {"snap", "time", "calc"} /\ i < idx) =>
           /\ counters[i] = edges_snap[i] % CounterModulus
           /\ edges_last[i] <= edges_snap[i]
           /\ edges_snap[i] <= edges[i]

\* a second accepted sample has just completed, and a pulse that arrived
\* between its snapshot read and its end waits for the next window
C4_Witness ==
    /\ last_op.op = "sample"
    /\ last_op.accepted
    /\ pc = "idle"
    /\ \E c \in Channels :
         /\ edges_last[c] > 0
         /\ windows_sum[c] = edges_last[c]
         /\ edges[c] > edges_last[c]
         /\ fan_tacho_freq[c][1] > 0

\* C5: the edge handler, called with a pin mapped to channel c, adds exactly
\* 1 to pulse_count[c] and changes no other counter; called with an unmapped
\* or invalid pin (one outside the map) it changes no counter; it never
\* changes baselines, frequencies, the timestamp or the map.
C5_EdgeHandlerEffect ==
    [][ \A gpio \in GpioInputs :
          fan_tacho_read_callback(gpio) =>
            /\ IF gpio \in MapPins /\ gpio_fan_tacho_map[gpio % GpioMapSize] > 0
               THEN fan_tacho_counters' =
                      [fan_tacho_counters EXCEPT
                         ![gpio_fan_tacho_map[gpio] - 1] =
                            (@ + 1) % CounterModulus]
               ELSE fan_tacho_counters' = fan_tacho_counters
            /\ UNCHANGED <<fan_tacho_counters_last, fan_tacho_freq,
                           fan_tacho_last_read, gpio_fan_tacho_map>> ]_vars

\* C6: after setup_tacho_inputs the pin-to-channel map is injective: every
\* channel has its reverse entry, every other entry is 0; a table in which
\* two channels claim one pin is not accepted.
C6_MapInjective ==
    pc # "boot" =>
      /\ \A c \in Channels : gpio_fan_tacho_map[fan_gpio_tacho_map[c]] = c + 1
      /\ \A p \in MapPins :
           (\A c \in Channels : fan_gpio_tacho_map[c] # p)
             => gpio_fan_tacho_map[p] = 0

-----------------------------------------------------------------------------
(* Claims about the filter registry *)

Returned(op) == f_in.op = op /\ f_op.op = "returned"

KnownSelectors == {FILTER_NONE, FILTER_LOSSYPEAK}

\* C7: for every selector outside the known variants the dispatch calls
\* behave as for "none": filter_parse_args and filter_print_args return
\* NULL, filter returns its input, and no call reads an undefined table
\* entry or fails.
C7_BadSelectorIsNone ==
    \A op \in {"filter_parse_args", "filter_print_args", "filter"} :
      (Returned(op) /\ f_in.filter \notin KnownSelectors) =>
        /\ ~f_op.fault
        /\ f_op.ret = (IF op = "filter" THEN f_in.input ELSE NULL)

\* text t is the name n but for the case of its letters (n is in lower case)
SameButForCase(t, n) ==
    /\ Len(t) = Len(n)
    /\ \A k \in 1 .. Len(n) : t[k] = n[k] \/ t[k] = Upper(n[k])

\* C8: str2pwm_filter returns the selector of the entry whose name equals
\* the text ignoring letter case, and the "none" selector for every text
\* that equals no known name (prefixes, extensions, the empty text).
C8_ResolveName ==
    Returned("str2pwm_filter") =>
      LET hits == {i \in KnownSelectors :
                     SameButForCase(f_in.s, filters[i].name.str)}
      IN  /\ Cardinality(hits) <= 1
          /\ \A i \in hits : f_op.ret = i
          /\ hits = {} => f_op.ret = FILTER_NONE

\* "LosSyPeaK" resolved to the Lossy-Peak selector
C8_Witness ==
    /\ Returned("str2pwm_filter")
    /\ f_in.s = <<"L", "o", "s", "S", "y", "P", "e", "a", "K">>
    /\ f_op.ret = FILTER_LOSSYPEAK

\* a proper prefix of a known name resolved to "none"
C8_WitnessPrefix ==
    /\ Returned("str2pwm_filter")
    /\ f_in.s = <<"l", "o", "s", "s", "y">>
    /\ f_op.ret = FILTER_NONE

\* C9: filter with the "none" selector, or any selector whose entry has no
\* transform, returns exactly its input, for every input and every context
\* argument (NULL included), and leaves the caller's context as it was.
C9_NoTransformIsIdentity ==
    (/\ Returned("filter")
     /\ f_in.filter \in DOMAIN filters
     /\ filters[f_in.filter].filter_func = NULL) =>
        /\ ~f_op.fault
        /\ f_op.ret = f_in.input
        /\ f_ctx = f_in.heap

\* filter called with "none", a live context and a non-zero input
C9_Witness ==
    /\ Returned("filter")
    /\ f_in.filter = FILTER_NONE
    /\ f_in.ctx # NULL
    /\ f_in.input = <<MaxInput, 1>>
    /\ now > 0

\* exactly two comma-separated fields, both of them numbers
WellFormedLossyPeak(args) ==
    /\ args # NULL
    /\ LET commas == {i \in 1 .. Len(args.str) : args.str[i] = ","} IN
         /\ Cardinality(commas) = 1
         /\ LET c == CHOOSE i \in commas : TRUE IN
              /\ c > 1 /\ c < Len(args.str)
              /\ str_to_float(Str(SubSeq(args.str, 1, c - 1))).ok
              /\ str_to_float(Str(SubSeq(args.str, c + 1, Len(args.str)))).ok

\* C10: filter_parse_args returns NULL and allocates nothing when the text
\* is absent, is not exactly two comma-separated numbers, or the variant
\* has no parser; it returns a context only for well-formed text of a
\* variant with a parser.  (Stated for the selectors of the table.)
C10_ParseRejectsMalformed ==
    (Returned("filter_parse_args") /\ f_in.filter \in DOMAIN filters) =>
        \/ /\ filters[f_in.filter].parse_args_func # NULL
           /\ WellFormedLossyPeak(f_in.args)
        \/ /\ f_op.ret = NULL
           /\ f_ctx = NULL

\* the context created from the text that describes context c
Recreated(c) == lossy_peak_parse_args(lossy_peak_print_args(c), now)

\* C11: the text filter_print_args returns for a Lossy-Peak context that
\* was created from a valid configuration text creates a second context
\* with the same decay_rate and the same hold_delay (in microseconds).
C11_RoundTrip ==
    (Returned("filter_print_args") /\ f_in.filter = FILTER_LOSSYPEAK
        /\ f_in.ctx # NULL)
    => /\ f_op.ret = lossy_peak_print_args(f_in.ctx)
       /\ Recreated(f_in.ctx) # NULL
       /\ Recreated(f_in.ctx).decay = f_in.ctx.decay
       /\ Recreated(f_in.ctx).delay_us = f_in.ctx.delay_us

\* the values of the clock
ClockValues == {k * TickUs : k \in 0 .. MaxTicks}

\* C15: the throttle is self-resetting.  A sampler call whose elapsed time
\* is at least 1 second is accepted (baselines set to the snapshot, the
\* timestamp to the time read), whatever calls preceded it; once 1 second
\* has passed since the last accepted sample, an accepted sample follows;
\* and while the clock can still advance by 1 second, every accepted sample
\* (or the setup) is followed by another accepted sample.
C15_ThrottleSelfResetting ==
    /\ [][ (pc = "calc" /\ pc' = "idle" /\ SampleDelta >= 1000000)
              => /\ fan_tacho_last_read' = read_time
                 /\ fan_tacho_counters_last' = counters
                 /\ last_op'.op = "sample" /\ last_op'.accepted ]_vars
    /\ \A t \in ClockValues :
          (pc # "boot" /\ fan_tacho_last_read = t /\ now - t >= 1000000)
              ~> (fan_tacho_last_read > t)
    /\ \A t \in ClockValues :
          (pc # "boot" /\ fan_tacho_last_read = t
              /\ t + 1000000 <= MaxTicks * TickUs)
              ~> (fan_tacho_last_read > t)

\* a second accepted sample, made right after a throttled call
C15_Witness ==
    /\ last_op.op = "sample"
    /\ last_op.accepted
    /\ last_op.after_throttled
    /\ fan_tacho_last_read >= 2 * 1000000
    /\ pc = "idle"

-----------------------------------------------------------------------------
(* Claims about the Lossy-Peak filter *)

\* a call of lossy_peak_filter has returned
Called == f_in.op = "lossy_peak_filter" /\ f_op.op = "returned"

\* the call arrived with its input below the peak
BelowPeak == RatLess(f_in.input, f_in.before.peak)

\* the time from the last new peak to the call
SincePeak == f_in.t_now - f_in.before.peak_t

\* the peak lowered by the decay of us microseconds, but not below the input
Lowered(peak, us, input) ==
    RatMax(input, RatSub(peak, RatMul(RatNorm(us, 1000000), f_ctx.decay)))

\* C12: after every transform call the returned peak is not below the
\* call's input, and the peak is lower than before the call only if the
\* phase after the call is DECAYING.
C12_PeakFallsOnlyWhileDecaying ==
    Called =>
        /\ f_op.ret = f_ctx.peak
        /\ ~RatLess(f_op.ret, f_in.input)
        /\ RatLess(f_ctx.peak, f_in.before.peak) => f_ctx.state = 1

\* a call that lowered the peak and stopped at its input
C12_Witness ==
    /\ Called
    /\ RatLess(f_ctx.peak, f_in.before.peak)
    /\ f_ctx.peak = f_in.input
    /\ f_in.input # <<0, 1>>
    /\ f_ctx.state = 1

\* C13: with decay_rate = 0 every call returns the maximum of all inputs
\* seen so far and of the initial peak 0, and never lowers the peak,
\* whatever the elapsed time.
C13_ZeroDecayHoldsForever ==
    (Called /\ f_ctx.decay = <<0, 1>>) =>
        /\ f_op.ret = f_op.max_seen
        /\ ~RatLess(f_ctx.peak, f_in.before.peak)

\* decay_rate = 0, already in DECAYING phase, a lower input arriving later
\* than the previous call and past the hold delay
C13_Witness ==
    /\ Called
    /\ f_ctx.decay = <<0, 1>>
    /\ f_in.before.state = 1
    /\ BelowPeak
    /\ f_in.before.last_t < f_in.t_now
    /\ SincePeak > f_ctx.delay_us
    /\ f_op.ret = <<MaxPeak, 1>>
    /\ f_op.ret = f_op.max_seen

\* C14: with hold_delay = 0, a call that arrives in TRACKING phase with an
\* input below the peak (the first such call after a new peak) leaves the
\* filter in DECAYING phase, however little time has passed.
C14_ZeroHoldDecaysAtOnce ==
    (Called /\ f_ctx.delay_us = 0 /\ f_in.before.state = 0 /\ BelowPeak)
        => f_ctx.state = 1

\* the lower input arrives at the very time of the peak
C14_Witness ==
    /\ Called
    /\ f_ctx.delay_us = 0
    /\ f_in.before.state = 0
    /\ BelowPeak
    /\ SincePeak = 0
    /\ f_ctx.state = 1

\* C16: a call in TRACKING phase with input below the peak, hold_delay > 0
\* and elapsed = now - peak_time > hold_delay makes the phase DECAYING and
\* lowers the peak by (elapsed - hold_delay) * decay_rate, or to the input
\* if that is higher; decay 2.0, hold 0.5, inputs 10 at 0 s, 0 at 0.3 s and
\* 0 at 1.3 s return 8.4 in the third call.
C16_TransitionCarriesExcess ==
    (Called /\ f_in.before.state = 0 /\ BelowPeak /\ f_ctx.delay_us > 0
        /\ SincePeak > f_ctx.delay_us)
    => /\ f_ctx.state = 1
       /\ f_op.ret = Lowered(f_in.before.peak, SincePeak - f_ctx.delay_us,
                             f_in.input)
       /\ (/\ f_ctx.decay = <<2, 1>> /\ f_ctx.delay_us = 500000
           /\ f_in.before.peak = <<10, 1>> /\ f_in.before.peak_t = 0
           /\ f_in.input = <<0, 1>> /\ f_in.t_now = 1300000)
          => f_op.ret = <<42, 5>>

\* the example: 10 at 0 s, 0 at 0.3 s, 0 at 1.3 s
C16_Witness ==
    /\ Called
    /\ f_ctx.decay = <<2, 1>> /\ f_ctx.delay_us = 500000
    /\ f_in.before.state = 0
    /\ f_in.before.peak = <<10, 1>> /\ f_in.before.peak_t = 0
    /\ f_in.before.last_t = 300000
    /\ f_in.input = <<0, 1>> /\ f_in.t_now = 1300000
    /\ f_ctx.state = 1
    /\ f_op.ret = <<42, 5>>

\* C17: a call in TRACKING phase with input below the peak, hold_delay > 0
\* and now - peak_time <= hold_delay returns the unchanged peak and changes
\* nothing of the context but last_update_time, which becomes now.
C17_HoldWindowFrame ==
    (Called /\ f_in.before.state = 0 /\ BelowPeak /\ f_ctx.delay_us > 0
        /\ SincePeak <= f_ctx.delay_us)
    => /\ f_op.ret = f_in.before.peak
       /\ f_ctx = [f_in.before EXCEPT !.last_t = f_in.t_now]

\* a call exactly when the hold delay ends, later than the previous call
C17_Witness ==
    /\ Called
    /\ f_in.before.state = 0 /\ BelowPeak
    /\ f_ctx.delay_us > 0
    /\ SincePeak = f_ctx.delay_us
    /\ f_in.before.last_t < f_in.t_now
    /\ f_ctx.state = 0
    /\ f_ctx.last_t = f_in.t_now

\* C18: a call that arrives in DECAYING phase with input below the peak
\* sets the peak to max(input, peak - (now - last_update_time) * decay_rate)
\* and stays in DECAYING; a call that arrives in DECAYING and ends in
\* TRACKING has an input >= the peak.
C18_DecayStep ==
    /\ (Called /\ f_in.before.state = 1 /\ BelowPeak)
       => /\ f_ctx.state = 1
          /\ f_op.ret = Lowered(f_in.before.peak,
                                f_in.t_now - f_in.before.last_t, f_in.input)
    /\ (Called /\ f_in.before.state = 1 /\ f_ctx.state = 0) => ~BelowPeak

\* a decay step over a time that differs from the time since the peak
C18_Witness ==
    /\ Called
    /\ f_in.before.state = 1 /\ BelowPeak
    /\ f_in.before.last_t < f_in.t_now
    /\ f_in.before.peak_t < f_in.before.last_t
    /\ RatLess(f_ctx.peak, f_in.before.peak)
    /\ RatLess(f_in.input, f_ctx.peak)

\* C19 as stated: with hold_delay = 0 the call that moves the filter from
\* TRACKING to DECAYING leaves the peak as it was.
C19_ZeroHoldTransitionKeepsPeak ==
    (Called /\ f_ctx.delay_us = 0 /\ f_in.before.state = 0 /\ BelowPeak)
        => f_ctx.peak = f_in.before.peak

\* C19: with hold_delay = 0 the call that moves the filter from TRACKING to
\* DECAYING lowers the peak by (now - last_update_time) * decay_rate, the
\* time since the previous call (the call of the peak), or to the input if
\* that is higher.
C19_ZeroHoldTransitionDecays ==
    (Called /\ f_ctx.delay_us = 0 /\ f_in.before.state = 0 /\ BelowPeak)
    => /\ f_ctx.state = 1
       /\ f_in.before.last_t = f_in.before.peak_t
       /\ f_op.ret = Lowered(f_in.before.peak,
                             f_in.t_now - f_in.before.last_t, f_in.input)

\* the transition call comes later than the peak and lowers the peak
C19_Witness ==
    /\ Called
    /\ f_ctx.delay_us = 0
    /\ f_in.before.state = 0 /\ BelowPeak
    /\ f_in.before.last_t < f_in.t_now
    /\ f_ctx.state = 1
    /\ RatLess(f_ctx.peak, f_in.before.peak)

\* C20: after a call at time t0 that accepted a new peak p, while every
\* later call supplies the same input x < p, a call at time t returns p
\* if t - t0 <= hold_delay and max(x, p - decay_rate * (t - t0 - hold_delay))
\* otherwise, whatever calls were made in between.
C20_ScheduleIndependent ==
    (Called /\ f_op.run.live /\ f_op.run.x # f_op.run.p)
    => /\ f_in.input = f_op.run.x
       /\ RatLess(f_op.run.x, f_op.run.p)
       /\ f_op.ret =
            IF f_in.t_now - f_op.run.t0 <= f_ctx.delay_us THEN f_op.run.p
            ELSE Lowered(f_op.run.p,
                         f_in.t_now - f_op.run.t0 - f_ctx.delay_us,
                         f_op.run.x)

\* a call of such a run that arrives in DECAYING phase (an earlier call of
\* the run made the transition) and returns a value between x and p
C20_Witness ==
    /\ Called
    /\ f_op.run.live /\ f_op.run.x # f_op.run.p
    /\ f_in.before.state = 1
    /\ f_in.before.last_t < f_in.t_now
    /\ f_op.run.t0 + f_ctx.delay_us < f_in.before.last_t
    /\ RatLess(f_op.ret, f_op.run.p)
    /\ RatLess(f_op.run.x, f_op.ret)

=============================================================================
